---- MODULE Spec2Model ----
(***************************************************************************)
(* A model of the batched-write layer of bolt-factory (src/batching.go):   *)
(* BoltBatch accumulates WriteOperations grouped by bucket (Add) and       *)
(* commits them bucket by bucket, one bolt transaction per bucket, either  *)
(* sequentially (Execute) or from one goroutine per bucket behind a        *)
(* channel semaphore (ExecuteConcurrent).                                  *)
(*                                                                         *)
(* The bolt store is modelled by its contract: a map bucket -> (key ->     *)
(* value); DB.Batch(fn) runs fn in a write transaction that commits when   *)
(* fn returns nil and is rolled back when fn returns an error; write       *)
(* transactions are serialised by the store and readers only ever see      *)
(* committed states (the variable store).                                  *)
(***************************************************************************)
EXTENDS Naturals, Integers, Sequences, FiniteSets, TLC

----------------------------------------------------------------------------
(* Bounds and program constants.                                           *)

\* const OpSet / OpDelete (src/batching.go:16-17); OpOther stands for any
\* other string a caller may put in WriteOperation.Op.
OpSet == "set"
OpDelete == "delete"
OpOther == "other"

\* MAX_CONCURRENT_OPERATIONS = 10 and MAX_SEQUENTIAL_OPERATIONS = 5_000 in
\* the source (src/batching.go:19-20), scaled down so that the capacity
\* guard and a full semaphore are reachable.
MAX_CONCURRENT_OPERATIONS == 1
MAX_SEQUENTIAL_OPERATIONS == 2

\* The largest number of operations a batch of the model accumulates.
MaxOps == 3

\* bucket names and keys are byte strings a caller chooses; the empty one is
\* the name bolt refuses for a bucket and the key it refuses in Put
Buckets == {"b1", "b2", "b3", ""}
Keys == {"k1", "k2", ""}
Values == {"v1", "v2"}
\* a key longer than the 32768 bytes bolt accepts, and a value longer than
\* the 2^31-2 bytes it accepts
BigKey == "key > 32768 bytes"
BigValue == "value > 2^31-2 bytes"
\* WriteOperation.Value is a *[]byte: NIL is the nil pointer.
NIL == "<nil>"

Min(a, b) == IF a <= b THEN a ELSE b

----------------------------------------------------------------------------
(* Values.                                                                 *)

\* WriteOperation (src/batching.go:25-30)
WriteOperation == [Bucket : Buckets, Key : Keys, Value : Values \cup {NIL},
                   Op : {OpSet, OpDelete, OpOther}]

\* The operations callers hand to Add in the model. On bucket b1: a set of
\* k1 to either value or to no value, a set of k2, a delete of either key, a
\* delete that carries a value, an operation of unknown kind, a set of the
\* empty key. On b2 and b3: a set of k1 with or without a value and, on b2,
\* a delete of k1. On the bucket of the empty name: a delete of k1.
OpInputs ==
  {op \in WriteOperation :
     /\ op.Key = "" => (op.Bucket = "b1" /\ op.Op = OpSet /\ op.Value = "v1")
     /\ op.Bucket = "" => op.Op = OpDelete
     /\ op.Key = "k2" => op.Value \in (IF op.Op = OpSet THEN {"v1"} ELSE {NIL})
     /\ op.Op = OpDelete => op.Value \in {NIL, "v1"}
     /\ op.Op = OpOther => (op.Value = NIL /\ op.Key = "k1")
     /\ op.Bucket # "b1" =>
          /\ op.Key = "k1"
          /\ op.Op # OpOther
          /\ op.Op = OpSet => op.Value \in {NIL, "v1"}
          /\ op.Op = OpDelete => (op.Value = NIL /\ op.Bucket \in {"b2", ""})}

NoOp == [Bucket |-> "-", Key |-> "-", Value |-> NIL, Op |-> "-"]

\* error values. at is the identity of the error object: errors.New
\* allocates a fresh error in the transaction of one bucket.
NoErr == [msg |-> "nil", at |-> "-"]
Pending == [msg |-> "pending", at |-> "-"]
ErrValueNil(bucket) == [msg |-> "value is nil", at |-> bucket]
ErrMaxSequential == [msg |-> "max sequential operations reached", at |-> "-"]
\* bolt's error variables
ErrBucketNameRequired == [msg |-> "bucket name required", at |-> "-"]
ErrKeyRequired == [msg |-> "key required", at |-> "-"]
ErrKeyTooLarge == [msg |-> "key too large", at |-> "-"]
ErrValueTooLarge == [msg |-> "value too large", at |-> "-"]
ErrDatabaseNotOpen == [msg |-> "database not open", at |-> "-"]

\* finite maps (Go maps, bolt buckets) are functions on a finite domain
EmptyMap == [x \in {} |-> NIL]
MapPut(m, k, v) == [x \in (DOMAIN m) \cup {k} |-> IF x = k THEN v ELSE m[x]]
MapDelete(m, k) == [x \in (DOMAIN m) \ {k} |-> m[x]]

VARIABLES
  ops,        \* BoltBatch.ops: bucket -> sequence of operations
  store,      \* the committed content of the bolt database: bucket -> key -> value
  lck,        \* BoltBatch.lck is held
  mode,       \* the Execute variant in progress: "idle", "seq" or "conc"
  remaining,  \* Execute: the buckets the range loop has not visited yet
  pc,         \* ExecuteConcurrent: position of the goroutine of each bucket
  sem,        \* ExecuteConcurrent: number of elements in the semaphore channel
  gerr,       \* ExecuteConcurrent: errgroup.Group.err (set once)
  res,        \* what the transaction of each bucket returned in this execution
  ret,        \* the last call: its name, argument and returned error
  pre,        \* the store when the execution in progress (or the last one) started
  finished,   \* ExecuteConcurrent: the buckets in the order their goroutines ended
  rerun       \* the execution started right after an Execute variant returned nil

\* goroutines that call Add on the same batch
VARIABLES
  prodPc,     \* position of each producer inside Add
  prodQueue,  \* the operations each producer has still to add
  prodCur,    \* the slice b.ops[bucket] a producer read for its append
  log         \* the Add calls that have run, in the order they held the lock

\* BoltFactory
VARIABLES
  factory,    \* NewBoltFactory has returned a factory
  databases,  \* BoltFactory.databases: name -> database (or the nil pointer)
  flck,       \* BoltFactory.lck: "free" or "w" (write-locked)
  fpc,        \* the factory call in progress: "idle" or "CloseAll"
  fret,       \* the last factory call and what it returned
  openDbs,    \* the databases bolt.Open has opened and nobody has closed
  nDbs,       \* how many databases bolt.Open has opened so far
  handles     \* the databases Open and Get have returned to callers (nil included)

\* the databases a batch can be bound to
VARIABLES
  boltdb,     \* BoltBatch.boltdb: the database bound to the batch; store is its content
  other,      \* the content of the database the batch is not bound to
  startDb,    \* the database that was bound when the last execution started
  target,     \* per bucket, the database b.boltdb pointed to when db.Batch was called
  closed      \* the databases BoltDatabase.Close has closed

dbVars == <<boltdb, other, startDb, target, closed>>

batchVars ==
  <<ops, store, lck, mode, remaining, pc, sem, gerr, res, ret, pre, finished, rerun>>
prodVars == <<prodPc, prodQueue, prodCur, log>>
facVars == <<factory, databases, flck, fpc, fret, openDbs, nDbs, handles>>

vars == <<batchVars, dbVars, prodVars, facVars>>

----------------------------------------------------------------------------
(* The store: bolt's Tx.CreateBucketIfNotExists, Bucket.Put, Bucket.Delete *)
(* and DB.Batch, as batching.go uses them.                                 *)

\* Tx.CreateBucketIfNotExists: the error it returns and the transaction's
\* view of the store; an empty name is refused
CreateBucketIfNotExists(st, bucket) ==
  IF bucket = "" THEN [err |-> ErrBucketNameRequired, tx |-> st]
  ELSE IF bucket \in DOMAIN st THEN [err |-> NoErr, tx |-> st]
  ELSE [err |-> NoErr, tx |-> MapPut(st, bucket, EmptyMap)]

\* Bucket.Put: the error it returns and the bucket's content; an empty key,
\* a key that is too long and a value that is too long are refused, in this
\* order
BucketPut(data, key, value) ==
  IF key = "" THEN [err |-> ErrKeyRequired, data |-> data]
  ELSE IF key = BigKey THEN [err |-> ErrKeyTooLarge, data |-> data]
  ELSE IF value = BigValue THEN [err |-> ErrValueTooLarge, data |-> data]
  ELSE [err |-> NoErr, data |-> MapPut(data, key, value)]

\* a Delete that leaves the key where it is
BucketDelete_Keeps(data, key) == data

BucketDelete(data, key) == MapDelete(data, key)

\* the loop of execOpsByBucket from operation i on: the first operation
\* whose kind is set or delete decides what the function returns
RECURSIVE execOpsLoop(_, _, _, _)
execOpsLoop(data, bucket, bops, i) ==
  IF i > Len(bops) THEN [err |-> NoErr, data |-> data]
  ELSE LET op == bops[i] IN
    CASE op.Op = OpSet ->
           IF op.Value = NIL
             THEN [err |-> ErrValueNil(bucket), data |-> data]
             ELSE BucketPut(data, op.Key, op.Value)
      [] op.Op = OpDelete ->
           [err |-> NoErr, data |-> BucketDelete(data, op.Key)]
      [] OTHER -> execOpsLoop(data, bucket, bops, i + 1)

\* execOpsByBucket inside a write transaction on st: the error it returns and
\* the transaction's view of the store when it returns
execOpsByBucket(st, bucket, bops) ==
  LET c == CreateBucketIfNotExists(st, bucket) IN
    IF c.err # NoErr THEN [err |-> c.err, tx |-> c.tx]
    ELSE LET r == execOpsLoop(c.tx[bucket], bucket, bops, 1)
         IN [err |-> r.err, tx |-> MapPut(c.tx, bucket, r.data)]

\* b.boltdb.db.Batch(func(tx) error { return b.execOpsByBucket(tx, bucket, ops) }):
\* commit when the closure returns nil, roll back otherwise
BatchCommit(st, r) == IF r.err = NoErr THEN r.tx ELSE st

dbBatch(st, bucket, bops) ==
  LET r == execOpsByBucket(st, bucket, bops)
  IN [err |-> r.err, store |-> BatchCommit(st, r)]

----------------------------------------------------------------------------
(* BoltBatch                                                               *)

TotalOps(m) ==
  LET RECURSIVE Sum(_)
      Sum(S) == IF S = {} THEN 0
                ELSE LET b == CHOOSE x \in S : TRUE IN Len(m[b]) + Sum(S \ {b})
  IN Sum(DOMAIN m)

\* the store a database file holds when it is opened: empty, or written before
InitStores ==
  {EmptyMap,
   MapPut(EmptyMap, "b1", MapPut(MapPut(EmptyMap, "k1", "v2"), "k2", "v2"))}

\* the goroutines that share a batch
Producers == {"p1", "p2"}

\* no producer goroutine has been started
NoProducers ==
  /\ prodPc = [p \in Producers |-> "done"]
  /\ prodQueue = [p \in Producers |-> << >>]
  /\ prodCur = [p \in Producers |-> << >>]
  /\ log = << >>

\* the nil *BoltDatabase; the databases bolt.Open opens are numbered from 1
NilDb == 0

\* what a factory call returned: the call, its name argument, its error, the
\* database it opened or handed back, whether its bolt.Open succeeded, the
\* names it listed; for CloseAll, the databases registered when it was called
NoCall == [call |-> "none", name |-> "-", err |-> NoErr, db |-> NilDb,
           opened |-> FALSE, names |-> {}, dbs |-> {}]

\* no factory has been constructed
NoFactory ==
  /\ factory = FALSE
  /\ databases = EmptyMap
  /\ flck = "free"
  /\ fpc = "idle"
  /\ fret = NoCall
  /\ openDbs = {}
  /\ nDbs = 0
  /\ handles = {}

\* the batch is bound to the database it was made for; another one is empty
OneDb ==
  /\ boltdb = "db1"
  /\ other = EmptyMap
  /\ startDb = boltdb
  /\ target = [b \in Buckets |-> "-"]
  /\ closed = {}

\* NewBoltBatch
Init ==
  /\ OneDb
  /\ NoProducers
  /\ NoFactory
  /\ ops = EmptyMap
  /\ store \in InitStores
  /\ lck = FALSE
  /\ mode = "idle"
  /\ remaining = {}
  /\ pc = [b \in Buckets |-> "none"]
  /\ sem = 0
  /\ gerr = NoErr
  /\ res = [b \in Buckets |-> Pending]
  /\ ret = [call |-> "NewBoltBatch", arg |-> NoOp, err |-> NoErr]
  /\ pre = store
  /\ finished = << >>
  /\ rerun = FALSE

\* a Lock that never waits
TryLock_Always(held) == TRUE

\* b.lck.Lock() returns only when nobody holds the mutex
TryLock(held) == ~held

\* a guard that counts the queued operations instead of the buckets
AddFull_CountsOps(m) == TotalOps(m) >= MAX_SEQUENTIAL_OPERATIONS

\* a guard that lets the batch grow one bucket past the limit
AddFull_PastLimit(m) == Cardinality(DOMAIN m) > MAX_SEQUENTIAL_OPERATIONS

\* the guard of Add
AddFull(m) == Cardinality(DOMAIN m) >= MAX_SEQUENTIAL_OPERATIONS

\* b.ops[string(op.Bucket)] = append(b.ops[string(op.Bucket)], op)
AddAppend(m, op) ==
  MapPut(m, op.Bucket,
         Append(IF op.Bucket \in DOMAIN m THEN m[op.Bucket] ELSE << >>, op))

Add(op) ==
  /\ TryLock(lck)
  /\ TotalOps(ops) < MaxOps
  /\ IF AddFull(ops)
       THEN /\ ret' = [call |-> "Add", arg |-> op, err |-> ErrMaxSequential]
            /\ ops' = ops
       ELSE /\ ret' = [call |-> "Add", arg |-> op, err |-> NoErr]
            /\ ops' = AddAppend(ops, op)
  /\ UNCHANGED <<store, lck, mode, remaining, pc, sem, gerr, res, pre, finished>>
  /\ UNCHANGED <<rerun, dbVars, prodVars, facVars>>

\* an Execute variant that empties the batch it has run
OpsAfterExecute_Cleared(m) == EmptyMap

\* b.ops when an Execute variant returns: neither variant assigns to it
OpsAfterExecute(m) == m

\* Execute: lock, then the range loop
ExecuteStart ==
  /\ TryLock(lck)
  /\ lck' = TRUE
  /\ mode' = "seq"
  /\ remaining' = DOMAIN ops
  /\ res' = [b \in Buckets |-> Pending]
  /\ pc' = [b \in Buckets |-> "none"]
  /\ gerr' = NoErr
  /\ pre' = store
  /\ ret' = [call |-> "Execute", arg |-> NoOp, err |-> Pending]
  /\ finished' = << >>
  /\ UNCHANGED <<ops, store, sem>>
  /\ rerun' = (ret.call \in {"Execute", "ExecuteConcurrent"} /\ ret.err = NoErr)
  /\ startDb' = boltdb
  /\ target' = [b \in Buckets |-> "-"]
  /\ UNCHANGED <<boltdb, other, closed, prodVars, facVars>>

\* a loop that goes on to the next bucket whatever the transaction returned
ExecuteStops_Never(err) == FALSE

\* what Execute does with the error of one bucket's transaction
ExecuteStops(err) == err # NoErr

\* the content of a database: store is the bound one's, other the second's
StoreOf(db) == IF db = boltdb THEN store ELSE other

\* db.Batch called on a database: bolt refuses with "database not open" once
\* the database has been closed, and nothing is written
BatchOn(db, bucket, bops) ==
  IF db \in closed
    THEN [err |-> ErrDatabaseNotOpen, store |-> StoreOf(db)]
    ELSE dbBatch(StoreOf(db), bucket, bops)

\* BoltDatabase.Close, called by whoever holds the database (the batch never
\* closes it): b.db.Close() marks the database closed for every later call
BoltDatabaseClose(db) ==
  /\ db \notin closed
  /\ closed' = closed \cup {db}
  /\ UNCHANGED <<batchVars, boltdb, other, startDb, target, prodVars, facVars>>

\* the next iteration of the loop (Go ranges over a map in an unspecified
\* order): b.boltdb.db is evaluated and Batch is called on it
ExecuteCallBatch(bucket) ==
  /\ mode = "seq"
  /\ bucket \in remaining
  /\ \A b \in Buckets : pc[b] # "batch"
  /\ pc' = [pc EXCEPT ![bucket] = "batch"]
  /\ target' = [target EXCEPT ![bucket] = boltdb]
  /\ UNCHANGED <<ops, store, lck, mode, remaining, sem, gerr, res, ret, pre, finished>>
  /\ UNCHANGED <<rerun, boltdb, other, startDb, closed, prodVars, facVars>>

\* the transaction of the iteration runs, on the database Batch was called
\* on, and the loop looks at its error
ExecuteBucket(bucket) ==
  /\ mode = "seq"
  /\ pc[bucket] = "batch"
  /\ pc' = [pc EXCEPT ![bucket] = "none"]
  /\ LET r == BatchOn(target[bucket], bucket, ops[bucket]) IN
       /\ store' = IF target[bucket] = boltdb THEN r.store ELSE store
       /\ other' = IF target[bucket] = boltdb THEN other ELSE r.store
       /\ res' = [res EXCEPT ![bucket] = r.err]
       /\ remaining' = remaining \ {bucket}
       /\ IF ExecuteStops(r.err)
            THEN /\ ret' = [ret EXCEPT !.err = r.err]
                 /\ mode' = "idle"
                 /\ lck' = FALSE
                 /\ ops' = OpsAfterExecute(ops)
            ELSE UNCHANGED <<ret, mode, lck, ops>>
  /\ UNCHANGED <<sem, gerr, pre, finished>>
  /\ UNCHANGED <<rerun, boltdb, startDb, target, closed, prodVars, facVars>>

\* the loop is over: return nil
ExecuteReturn ==
  /\ mode = "seq"
  /\ remaining = {}
  /\ ret' = [ret EXCEPT !.err = NoErr]
  /\ mode' = "idle"
  /\ lck' = FALSE
  /\ ops' = OpsAfterExecute(ops)
  /\ UNCHANGED <<store, remaining, pc, sem, gerr, res, pre, finished>>
  /\ UNCHANGED <<rerun, dbVars, prodVars, facVars>>

\* make(chan struct{}, min(MAX_CONCURRENT_OPERATIONS, len(b.ops)))
SemaphoreCap(m) == Min(MAX_CONCURRENT_OPERATIONS, Cardinality(DOMAIN m))

\* ExecuteConcurrent: lock, make the semaphore, start one goroutine per bucket
ExecuteConcurrentStart ==
  /\ TryLock(lck)
  /\ lck' = TRUE
  /\ mode' = "conc"
  /\ sem' = 0
  /\ pc' = [b \in Buckets |-> IF b \in DOMAIN ops THEN "wait" ELSE "none"]
  /\ res' = [b \in Buckets |-> Pending]
  /\ gerr' = NoErr
  /\ remaining' = {}
  /\ pre' = store
  /\ ret' = [call |-> "ExecuteConcurrent", arg |-> NoOp, err |-> Pending]
  /\ finished' = << >>
  /\ UNCHANGED <<ops, store>>
  /\ rerun' = (ret.call \in {"Execute", "ExecuteConcurrent"} /\ ret.err = NoErr)
  /\ startDb' = boltdb
  /\ target' = [b \in Buckets |-> "-"]
  /\ UNCHANGED <<boltdb, other, closed, prodVars, facVars>>

\* a send that never blocks
CanAcquire_Always(n, m) == TRUE

\* semaphore <- struct{}{} : the send blocks while the channel is full
CanAcquire(n, m) == n < SemaphoreCap(m)

Acquire(bucket) ==
  /\ mode = "conc"
  /\ pc[bucket] = "wait"
  /\ CanAcquire(sem, ops)
  /\ sem' = sem + 1
  /\ pc' = [pc EXCEPT ![bucket] = "slot"]
  /\ UNCHANGED <<ops, store, lck, mode, remaining, gerr, res, ret, pre, finished>>
  /\ UNCHANGED <<rerun, dbVars, prodVars, facVars>>

\* the goroutine evaluates b.boltdb.db and calls Batch on it
CallBatch(bucket) ==
  /\ mode = "conc"
  /\ pc[bucket] = "slot"
  /\ pc' = [pc EXCEPT ![bucket] = "batch"]
  /\ target' = [target EXCEPT ![bucket] = boltdb]
  /\ UNCHANGED <<ops, store, lck, mode, remaining, sem, gerr, res, ret, pre, finished>>
  /\ UNCHANGED <<rerun, boltdb, other, startDb, closed, prodVars, facVars>>

\* the transaction of the bucket runs, on the database Batch was called on
RunBatch(bucket) ==
  /\ mode = "conc"
  /\ pc[bucket] = "batch"
  /\ LET r == BatchOn(target[bucket], bucket, ops[bucket]) IN
       /\ store' = IF target[bucket] = boltdb THEN r.store ELSE store
       /\ other' = IF target[bucket] = boltdb THEN other ELSE r.store
       /\ res' = [res EXCEPT ![bucket] = r.err]
  /\ pc' = [pc EXCEPT ![bucket] = "release"]
  /\ UNCHANGED <<ops, lck, mode, remaining, sem, gerr, ret, pre, finished>>
  /\ UNCHANGED <<rerun, boltdb, startDb, target, closed, prodVars, facVars>>

\* a goroutine that gives its slot back only when its transaction succeeded
SemAfterRelease_OnSuccess(n, err) == IF err = NoErr THEN n - 1 ELSE n

\* the deferred receive runs however the function returns
SemAfterRelease(n, err) == n - 1

\* the deferred <-semaphore
Release(bucket) ==
  /\ mode = "conc"
  /\ pc[bucket] = "release"
  /\ sem' = SemAfterRelease(sem, res[bucket])
  /\ pc' = [pc EXCEPT ![bucket] = "returned"]
  /\ UNCHANGED <<ops, store, lck, mode, remaining, gerr, res, ret, pre, finished>>
  /\ UNCHANGED <<rerun, dbVars, prodVars, facVars>>

\* a group that keeps the last error instead of the first
ErrOnce_KeepLast(old, err) == IF err # NoErr THEN err ELSE old

\* errgroup: if err := f(); err != nil { g.errOnce.Do(func() { g.err = err }) }
ErrOnce(old, err) == IF err # NoErr /\ old = NoErr THEN err ELSE old

\* the goroutine hands its result to the errgroup and ends (wg.Done)
TaskDone(bucket) ==
  /\ mode = "conc"
  /\ pc[bucket] = "returned"
  /\ gerr' = ErrOnce(gerr, res[bucket])
  /\ pc' = [pc EXCEPT ![bucket] = "done"]
  /\ finished' = Append(finished, bucket)
  /\ UNCHANGED <<ops, store, lck, mode, remaining, sem, res, ret, pre>>
  /\ UNCHANGED <<rerun, dbVars, prodVars, facVars>>

\* wg.Wait() lets ExecuteConcurrent go on once these goroutines have ended
WaitOver(p, m) == \A b \in DOMAIN m : p[b] = "done"

\* return wg.Wait()
ExecuteConcurrentReturn ==
  /\ mode = "conc"
  /\ WaitOver(pc, ops)
  /\ ret' = [ret EXCEPT !.err = gerr]
  /\ mode' = "idle"
  /\ lck' = FALSE
  /\ ops' = OpsAfterExecute(ops)
  /\ UNCHANGED <<store, remaining, pc, sem, gerr, res, pre, finished>>
  /\ UNCHANGED <<rerun, dbVars, prodVars, facVars>>

Next ==
  \/ \E op \in OpInputs : Add(op)
  \/ ExecuteStart
  \/ \E bucket \in Buckets : ExecuteCallBatch(bucket)
  \/ \E bucket \in Buckets : ExecuteBucket(bucket)
  \/ ExecuteReturn
  \/ ExecuteConcurrentStart
  \/ \E bucket \in Buckets : Acquire(bucket)
  \/ \E bucket \in Buckets : CallBatch(bucket)
  \/ \E bucket \in Buckets : RunBatch(bucket)
  \/ \E bucket \in Buckets : Release(bucket)
  \/ \E bucket \in Buckets : TaskDone(bucket)
  \/ ExecuteConcurrentReturn

Spec == Init /\ [][Next]_vars

\* a batch whose database its holder may close at any moment: deletes on
\* every bucket, and the sets of a bucket the store does not hold
CloseOps ==
  {op \in OpInputs : op.Op = OpDelete \/ (op.Op = OpSet /\ op.Bucket = "b3")}

NextClose ==
  \/ \E op \in CloseOps : Add(op)
  \/ ExecuteStart
  \/ \E bucket \in Buckets : ExecuteCallBatch(bucket)
  \/ \E bucket \in Buckets : ExecuteBucket(bucket)
  \/ ExecuteReturn
  \/ ExecuteConcurrentStart
  \/ \E bucket \in Buckets : Acquire(bucket)
  \/ \E bucket \in Buckets : CallBatch(bucket)
  \/ \E bucket \in Buckets : RunBatch(bucket)
  \/ \E bucket \in Buckets : Release(bucket)
  \/ \E bucket \in Buckets : TaskDone(bucket)
  \/ ExecuteConcurrentReturn
  \/ BoltDatabaseClose(boltdb)

SpecClose == Init /\ [][NextClose]_vars

\* a step of one of ExecuteConcurrent's goroutines, or of its wg.Wait
GoroutineStep(bucket) ==
  \/ Acquire(bucket)
  \/ CallBatch(bucket)
  \/ RunBatch(bucket)
  \/ Release(bucket)
  \/ TaskDone(bucket)

\* a batch made for a database file that was just created
InitEmptyStore == Init /\ store = EmptyMap

\* for termination what matters of an operation is whether its transaction
\* commits or fails: a set of k1 with a value on each named bucket and one
\* without on b1 and b2
TerminationOps ==
  {op \in OpInputs :
     /\ op.Op = OpSet /\ op.Key = "k1" /\ op.Value \in {"v1", NIL}
     /\ op.Bucket = "b3" => op.Value = "v1"}

\* batches of such operations, run by ExecuteConcurrent only
NextConcurrent ==
  \/ \E op \in TerminationOps : Add(op)
  \/ ExecuteConcurrentStart
  \/ \E bucket \in Buckets : Acquire(bucket)
  \/ \E bucket \in Buckets : CallBatch(bucket)
  \/ \E bucket \in Buckets : RunBatch(bucket)
  \/ \E bucket \in Buckets : Release(bucket)
  \/ \E bucket \in Buckets : TaskDone(bucket)
  \/ ExecuteConcurrentReturn
  \/ BoltDatabaseClose(boltdb)

\* the Go scheduler runs every goroutine that can run, and every store
\* transaction terminates; callers are free never to call
FairSpecConcurrent ==
  /\ InitEmptyStore
  /\ [][NextConcurrent]_vars
  /\ \A bucket \in Buckets : WF_vars(GoroutineStep(bucket))
  /\ WF_vars(ExecuteConcurrentReturn)

----------------------------------------------------------------------------
(* What the documentation promises of a bucket's transaction (README,      *)
(* "Using Batch Operations"; spec 4.5): every operation is applied, in the *)
(* order it was added; a set overwrites, a delete removes, a set without a *)
(* value or with a key bolt refuses fails the transaction.                 *)

RECURSIVE ReplayFrom(_, _, _, _)
ReplayFrom(data, bucket, bops, i) ==
  IF i > Len(bops) THEN [err |-> NoErr, data |-> data]
  ELSE LET op == bops[i] IN
    CASE op.Op = OpSet ->
           IF op.Value = NIL
             THEN [err |-> ErrValueNil(bucket), data |-> data]
             ELSE IF op.Key = ""
               THEN [err |-> ErrKeyRequired, data |-> data]
               ELSE ReplayFrom(MapPut(data, op.Key, op.Value), bucket, bops, i + 1)
      [] op.Op = OpDelete ->
           ReplayFrom(MapDelete(data, op.Key), bucket, bops, i + 1)
      [] OTHER -> ReplayFrom(data, bucket, bops, i + 1)

ReplayAll(data, bucket, bops) == ReplayFrom(data, bucket, bops, 1)

\* what a reader finds in a bucket: Get and List treat a missing bucket as empty
View(st, bucket) == IF bucket \in DOMAIN st THEN st[bucket] ELSE EmptyMap

\* a bucket as the store holds it: whether it exists, and its content
BucketState(st, bucket) ==
  [exists |-> bucket \in DOMAIN st, data |-> View(st, bucket)]

ValidOp(op) ==
  /\ op.Op \in {OpSet, OpDelete}
  /\ op.Op = OpSet => (op.Value # NIL /\ op.Key # "")
  /\ op.Bucket # ""

KnownKind(op) == op.Op \in {OpSet, OpDelete}

\* every operation of the batch is a set with a value or a delete
AllValid ==
  \A b \in DOMAIN ops : \A i \in 1..Len(ops[b]) : ValidOp(ops[b][i])

\* every operation of the batch is a set or a delete
AllKnownKinds ==
  \A b \in DOMAIN ops : \A i \in 1..Len(ops[b]) : KnownKind(ops[b][i])

IsFailure(err) == err # NoErr /\ err # Pending

Returned(call) == ret.call = call /\ ret.err # Pending

ExecuteVariantReturned == Returned("Execute") \/ Returned("ExecuteConcurrent")

\* the partitions whose transaction failed in this execution
FailedBuckets == {b \in DOMAIN ops : IsFailure(res[b])}

\* the position of the last operation on key in bops, 0 when there is none
LastOn(bops, key) ==
  LET S == {i \in 1..Len(bops) : bops[i].Key = key}
  IN IF S = {} THEN 0 ELSE CHOOSE i \in S : \A j \in S : j <= i

----------------------------------------------------------------------------
(* The claims.                                                             *)

\* C1: after Execute returns without error on a batch of valid set/delete
\* operations, every touched bucket holds the result of applying all of its
\* operations, in insertion order, to what it held before.
C1_ExecuteReplaysAll ==
  (Returned("Execute") /\ ret.err = NoErr /\ AllValid) =>
    \A b \in DOMAIN ops :
      View(store, b) = ReplayAll(View(pre, b), b, ops[b]).data

\* C2: a batch holding a set without a value, at any position of its bucket's
\* sequence, makes Execute and ExecuteConcurrent return the "value is nil"
\* error.
C2_ValueMissingReturned ==
  (ExecuteVariantReturned
     /\ \E b \in DOMAIN ops : \E i \in 1..Len(ops[b]) :
          ops[b][i].Op = OpSet /\ ops[b][i].Value = NIL)
  => ret.err.msg = "value is nil"

\* C3: while and after an Execute variant runs, a reader finds in every bucket
\* of the batch either what the bucket held before or the effect of all of the
\* bucket's operations, and only the former when one of them fails.
C3_AllOrNothing ==
  (ret.call \in {"Execute", "ExecuteConcurrent"} /\ AllKnownKinds) =>
    \A b \in DOMAIN ops :
      LET all == ReplayAll(View(pre, b), b, ops[b]) IN
        \/ View(store, b) = View(pre, b)
        \/ all.err = NoErr /\ View(store, b) = all.data

\* C4: the batch never holds more operations, summed over its buckets, than
\* MAX_SEQUENTIAL_OPERATIONS.
C4_TotalWithinLimit == TotalOps(ops) <= MAX_SEQUENTIAL_OPERATIONS

\* C5: an Add rejected with the capacity error leaves the operation map (its
\* buckets, their sequences, the total count) as it was, and an Add for a new
\* bucket when the number of tracked buckets equals the limit is rejected.
C5_RejectedAddLeavesBatch ==
  [][ret'.call = "Add" =>
       /\ ret'.err = ErrMaxSequential =>
            (ops' = ops /\ TotalOps(ops') = TotalOps(ops))
       /\ (Cardinality(DOMAIN ops) = MAX_SEQUENTIAL_OPERATIONS
             /\ ret'.arg.Bucket \notin DOMAIN ops) =>
            (ret'.err = ErrMaxSequential /\ DOMAIN ops' = DOMAIN ops)]_vars

\* an Add for a new bucket was rejected at the limit
C5_Witness ==
  /\ ret.call = "Add"
  /\ ret.err = ErrMaxSequential
  /\ Cardinality(DOMAIN ops) = MAX_SEQUENTIAL_OPERATIONS
  /\ ret.arg.Bucket \notin DOMAIN ops

\* the buckets Execute visited and committed before it returned
CommittedBuckets == {b \in DOMAIN ops : res[b] = NoErr}

\* C6: Execute returns nil only when no transaction failed; when the
\* transaction of bucket k failed it returns k's error, k is as it was before,
\* every bucket visited before k holds what its transaction committed, and
\* every bucket not visited yet is as it was before.
C6_FailFast ==
  Returned("Execute") =>
    /\ ret.err = NoErr <=> FailedBuckets = {}
    /\ \A k \in FailedBuckets :
         /\ ret.err = res[k]
         /\ FailedBuckets = {k}
         /\ BucketState(store, k) = BucketState(pre, k)
         /\ DOMAIN ops = CommittedBuckets \cup {k} \cup remaining
         /\ \A b \in CommittedBuckets :
              /\ b \notin remaining
              /\ b \in DOMAIN store
              /\ store[b] = dbBatch(pre, b, ops[b]).store[b]
         /\ \A b \in remaining :
              /\ res[b] = Pending
              /\ BucketState(store, b) = BucketState(pre, b)

\* Execute failed on its second bucket: the first one's write is in the store
C6_Witness ==
  /\ Returned("Execute")
  /\ \E k \in FailedBuckets : \E b \in CommittedBuckets :
       /\ ret.err = ErrValueNil(k)
       /\ View(store, b) # View(pre, b)

\* C7: when exactly one transaction of ExecuteConcurrent failed, every other
\* bucket of the batch holds the effect of all of its operations once
\* ExecuteConcurrent has returned.
C7_OthersCommitted ==
  (Returned("ExecuteConcurrent") /\ Cardinality(FailedBuckets) = 1) =>
    \A b \in DOMAIN ops \ FailedBuckets :
      (\A i \in 1..Len(ops[b]) : ValidOp(ops[b][i])) =>
        View(store, b) = ReplayAll(View(pre, b), b, ops[b]).data

\* the goroutines that hold a slot of the semaphore
SlotHolders == {b \in Buckets : pc[b] \in {"slot", "batch", "release"}}

\* C8: during ExecuteConcurrent at most min(MAX_CONCURRENT_OPERATIONS, number
\* of buckets) goroutines hold a slot, and a goroutine that has not acquired
\* one has not run its transaction.
C8_BoundedAdmission ==
  mode = "conc" =>
    /\ Cardinality(SlotHolders)
         <= Min(MAX_CONCURRENT_OPERATIONS, Cardinality(DOMAIN ops))
    /\ sem = Cardinality(SlotHolders)
    /\ \A b \in DOMAIN ops : pc[b] = "wait" => res[b] = Pending

\* every slot is taken and another goroutine waits for one
C8_Witness ==
  /\ mode = "conc"
  /\ Cardinality(SlotHolders) = MAX_CONCURRENT_OPERATIONS
  /\ \E b \in DOMAIN ops : pc[b] = "wait"

\* the failing goroutines in the order they ended
FailedInOrder == SelectSeq(finished, LAMBDA b : IsFailure(res[b]))

\* C9: when ExecuteConcurrent has returned every goroutine has ended and every
\* slot is free; it returns an error exactly when a transaction failed, and
\* then the error of the failing goroutine that ended first.
C9_WaitsAndFirstError ==
  Returned("ExecuteConcurrent") =>
    /\ \A b \in DOMAIN ops : pc[b] = "done" /\ res[b] # Pending
    /\ sem = 0
    /\ ret.err # NoErr <=> FailedBuckets # {}
    /\ FailedBuckets # {} => ret.err = res[Head(FailedInOrder)]

\* two goroutines failed; the error returned is the first one's, not the last's
C9_Witness ==
  /\ Returned("ExecuteConcurrent")
  /\ Len(FailedInOrder) = 2
  /\ ret.err = res[FailedInOrder[1]]
  /\ ret.err # res[FailedInOrder[2]]

\* C10: after an Execute variant returned without error on a batch of valid
\* operations, a key whose last operation is a set reads back as that value
\* and a key whose last operation is a delete is not found.
C10_LastWriteReadsBack ==
  (ExecuteVariantReturned /\ ret.err = NoErr /\ AllValid) =>
    \A b \in DOMAIN ops : \A key \in Keys :
      LET n == LastOn(ops[b], key) IN
        n # 0 =>
          IF ops[b][n].Op = OpSet
            THEN key \in DOMAIN View(store, b) /\ View(store, b)[key] = ops[b][n].Value
            ELSE key \notin DOMAIN View(store, b)

\* C11: Add and the Execute variants exclude each other on one batch: no step
\* changes the operation map while an Execute variant holds the lock, a
\* running variant is never joined or replaced by the other one, the lock is
\* held exactly while a variant runs; so an execution that returned without
\* error has applied exactly the operations the map held when it took the
\* lock, every one of them in order.
C11_ExclusiveExecution ==
  [][/\ lck => ops' = ops
     /\ (mode # "idle" /\ mode' # "idle") => mode' = mode
     /\ lck' <=> mode' # "idle"
     /\ (ExecuteVariantReturned' /\ ret'.err = NoErr) =>
          \A b \in DOMAIN ops' :
            BucketState(store', b) =
              [exists |-> TRUE,
               data |-> ReplayAll(View(pre', b), b, ops'[b]).data]]_vars

\* C17: Add is rejected with the capacity error exactly when the number of
\* buckets already tracked has reached the limit, whatever the number of
\* queued operations and whether or not the bucket is tracked; every other
\* Add appends the operation to its bucket's sequence and returns no error.
C17_GuardCountsPartitions ==
  [][ret'.call = "Add" =>
       IF Cardinality(DOMAIN ops) >= MAX_SEQUENTIAL_OPERATIONS
         THEN ret'.err = ErrMaxSequential /\ ops' = ops
         ELSE /\ ret'.err = NoErr
              /\ DOMAIN ops' = DOMAIN ops \cup {ret'.arg.Bucket}
              /\ ops'[ret'.arg.Bucket] =
                   (IF ret'.arg.Bucket \in DOMAIN ops
                      THEN ops[ret'.arg.Bucket] ELSE << >>) \o <<ret'.arg>>]_vars

\* an Add on a bucket the batch already tracks was rejected
C17_Witness ==
  /\ ret.call = "Add"
  /\ ret.err = ErrMaxSequential
  /\ ret.arg.Bucket \in DOMAIN ops
  /\ Cardinality(DOMAIN ops) = MAX_SEQUENTIAL_OPERATIONS

\* C19: an Execute variant never changes the operation map, from the call to
\* the return, with or without an error; and an execution started right
\* after one that returned without error leaves the store as it found it and
\* returns without error again, unless the database was closed meanwhile.
C19_ExecuteKeepsBatch ==
  [][/\ (mode # "idle" \/ mode' # "idle") => ops' = ops
     /\ rerun' =>
          /\ store' = pre'
          /\ ExecuteVariantReturned' =>
               \/ ret'.err = NoErr
               \/ ret'.err = ErrDatabaseNotOpen /\ boltdb \in closed']_vars

\* a second run of a batch that wrote a key has returned
C19_Witness ==
  /\ rerun
  /\ ExecuteVariantReturned
  /\ \E b \in DOMAIN ops : ops[b][1].Op = OpSet /\ ops[b][1].Key \in DOMAIN View(store, b)

\* the buckets whose only operation is a delete
DeleteOnly == {b \in DOMAIN ops : Len(ops[b]) = 1 /\ ops[b][1].Op = OpDelete}

\* C20: the transaction of a bucket whose operation is a delete never fails,
\* whatever the delete carries as value and whether or not the bucket or the
\* key existed; once it has committed the bucket exists, the key is absent
\* and every other key is as it was. A batch of such buckets only returns
\* without error.
C20_DeleteSucceeds ==
  /\ \A b \in DeleteOnly :
       /\ res[b] \in {Pending, NoErr}
       /\ res[b] = NoErr =>
            /\ b \in DOMAIN store
            /\ ops[b][1].Key \notin DOMAIN store[b]
            /\ \A k \in Keys \ {ops[b][1].Key} :
                 /\ k \in DOMAIN store[b] <=> k \in DOMAIN View(pre, b)
                 /\ k \in DOMAIN store[b] => store[b][k] = View(pre, b)[k]
  /\ (ExecuteVariantReturned /\ DeleteOnly = DOMAIN ops) => ret.err = NoErr

\* C20, amended: on a database that is open, the transaction of a bucket
\* whose name is not empty and whose operation is a delete never fails,
\* whatever the delete carries as value and whether or not the bucket or the
\* key existed; once it has committed the bucket exists, the key is absent
\* and every other key is as it was. A batch of such buckets only, run on a
\* database nobody has closed, returns without error. The only error such a
\* transaction returns is "database not open", from a database that has
\* been closed, and the transaction of the bucket of the empty name returns
\* "bucket name required" or that error.
C20_DeleteSucceedsOnOpenStore ==
  /\ \A b \in DeleteOnly :
       /\ res[b] \in {Pending, NoErr, ErrDatabaseNotOpen, ErrBucketNameRequired}
       /\ res[b] = ErrBucketNameRequired <=> (b = "" /\ res[b] \notin {Pending, ErrDatabaseNotOpen})
       /\ res[b] = ErrDatabaseNotOpen => target[b] \in closed
       /\ res[b] = NoErr =>
            /\ b \in DOMAIN store
            /\ ops[b][1].Key \notin DOMAIN store[b]
            /\ \A k \in Keys \ {ops[b][1].Key} :
                 /\ k \in DOMAIN store[b] <=> k \in DOMAIN View(pre, b)
                 /\ k \in DOMAIN store[b] => store[b][k] = View(pre, b)[k]
  /\ (ExecuteVariantReturned /\ DeleteOnly = DOMAIN ops /\ "" \notin DOMAIN ops
        /\ boltdb \notin closed) => ret.err = NoErr

\* a delete that carried a value removed a key that existed and kept the
\* bucket's other key; another delete created the bucket it was aimed at
C20_Witness ==
  /\ ExecuteVariantReturned
  /\ \E b \in DeleteOnly :
       /\ res[b] = NoErr
       /\ ops[b][1].Value # NIL
       /\ ops[b][1].Key \in DOMAIN View(pre, b)
       /\ DOMAIN store[b] # {}
  /\ \E b \in DeleteOnly : res[b] = NoErr /\ b \notin DOMAIN pre

----------------------------------------------------------------------------
(* Several goroutines adding to one batch (README, "Thread Safety").        *)
(* Each producer calls Add for the operations of its queue, one call after *)
(* the other; a call is the steps of src/batching.go:62-70: Lock, the      *)
(* guard and the read of the bucket's slice, the append and its            *)
(* assignment to the map, the deferred Unlock.                             *)

\* how many operations each producer adds
MaxProducerOps == 2

\* what the producers add: sets of k1 on each named bucket and of k2 on b1
ProducerOps ==
  {op \in OpInputs :
     /\ op.Op = OpSet
     /\ op.Value = "v1"
     /\ op.Bucket # "" /\ op.Key # ""
     /\ op.Key = "k1" \/ op.Bucket = "b1"}

\* NewBoltBatch: no operation, nothing running
NewBatch ==
  /\ OneDb
  /\ ops = EmptyMap
  /\ lck = FALSE
  /\ mode = "idle"
  /\ remaining = {}
  /\ pc = [b \in Buckets |-> "none"]
  /\ sem = 0
  /\ gerr = NoErr
  /\ res = [b \in Buckets |-> Pending]
  /\ ret = [call |-> "NewBoltBatch", arg |-> NoOp, err |-> NoErr]
  /\ finished = << >>
  /\ rerun = FALSE

\* a new batch and the producers about to run
InitProducers ==
  /\ NewBatch
  /\ store = EmptyMap
  /\ pre = store
  /\ prodPc = [p \in Producers |-> "start"]
  /\ prodQueue \in [Producers -> [1..MaxProducerOps -> ProducerOps]]
  /\ prodCur = [p \in Producers |-> << >>]
  /\ log = << >>
  /\ NoFactory

\* b.lck.Lock()
ProdLock(p) ==
  /\ prodPc[p] = "start"
  /\ prodQueue[p] # << >>
  /\ TryLock(lck)
  /\ lck' = TRUE
  /\ prodPc' = [prodPc EXCEPT ![p] = "locked"]
  /\ UNCHANGED <<ops, store, mode, remaining, pc, sem, gerr, res, ret, pre, finished, rerun>>
  /\ UNCHANGED <<prodQueue, prodCur, log, dbVars, facVars>>

\* the guard; when it rejects, Add returns (and unlocks); when it passes,
\* the evaluation of append's first argument, b.ops[op.Bucket]
ProdCheck(p) ==
  /\ prodPc[p] = "locked"
  /\ LET op == Head(prodQueue[p]) IN
       IF AddFull(ops)
         THEN /\ log' = Append(log, [who |-> p, op |-> op, err |-> ErrMaxSequential])
              /\ prodQueue' = [prodQueue EXCEPT ![p] = Tail(@)]
              /\ prodPc' = [prodPc EXCEPT ![p] = "start"]
              /\ lck' = FALSE
              /\ UNCHANGED prodCur
         ELSE /\ prodCur' = [prodCur EXCEPT ![p] =
                               IF op.Bucket \in DOMAIN ops THEN ops[op.Bucket] ELSE << >>]
              /\ prodPc' = [prodPc EXCEPT ![p] = "append"]
              /\ UNCHANGED <<log, prodQueue, lck>>
  /\ UNCHANGED <<ops, store, mode, remaining, pc, sem, gerr, res, ret, pre, finished, rerun>>
  /\ UNCHANGED <<dbVars, facVars>>

\* an append that puts the operation in front
SliceAppend_Front(cur, op) == <<op>> \o cur

\* append(b.ops[op.Bucket], op)
SliceAppend(cur, op) == Append(cur, op)

\* the assignment b.ops[op.Bucket] = append(...), return nil, the Unlock
ProdAppend(p) ==
  /\ prodPc[p] = "append"
  /\ LET op == Head(prodQueue[p]) IN
       /\ ops' = MapPut(ops, op.Bucket, SliceAppend(prodCur[p], op))
       /\ log' = Append(log, [who |-> p, op |-> op, err |-> NoErr])
  /\ prodQueue' = [prodQueue EXCEPT ![p] = Tail(@)]
  /\ prodPc' = [prodPc EXCEPT ![p] = "start"]
  /\ prodCur' = [prodCur EXCEPT ![p] = << >>]
  /\ lck' = FALSE
  /\ UNCHANGED <<store, mode, remaining, pc, sem, gerr, res, ret, pre, finished, rerun>>
  /\ UNCHANGED <<dbVars, facVars>>

NextProducers ==
  \/ \E p \in Producers : ProdLock(p)
  \/ \E p \in Producers : ProdCheck(p)
  \/ \E p \in Producers : ProdAppend(p)

SpecProducers == InitProducers /\ [][NextProducers]_vars

\* the Add calls that returned no error, in the order they ran
Accepted == SelectSeq(log, LAMBDA e : e.err = NoErr)

\* the operations of a sequence of log entries
RECURSIVE OpsOf(_)
OpsOf(entries) ==
  IF entries = << >> THEN << >> ELSE <<Head(entries).op>> \o OpsOf(Tail(entries))

\* how many times a sequence holds x
CountIn(seq, x) == Cardinality({i \in 1..Len(seq) : seq[i] = x})

\* how many times the batch holds the operation
RECURSIVE CountHeld(_, _, _)
CountHeld(m, bs, x) ==
  IF bs = {} THEN 0
  ELSE LET b == CHOOSE c \in bs : TRUE IN
         CountIn(m[b], x) + CountHeld(m, bs \ {b}, x)

\* s can be obtained from t by dropping elements
RECURSIVE IsSubseq(_, _)
IsSubseq(s, t) ==
  IF s = << >> THEN TRUE
  ELSE IF t = << >> THEN FALSE
  ELSE IF Head(s) = Head(t) THEN IsSubseq(Tail(s), Tail(t))
  ELSE IsSubseq(s, Tail(t))

\* every Add call of every producer has returned
AllAdded == \A p \in Producers : prodPc[p] = "start" /\ prodQueue[p] = << >>

\* C12: once every producer's Add calls have returned, the batch holds each
\* operation as many times as an Add of it returned no error (none lost,
\* none duplicated), and the operations one producer got accepted for a
\* bucket are in that bucket's sequence in the order the producer added them.
C12_NoLostAdd ==
  AllAdded =>
    /\ \A x \in ProducerOps :
         CountHeld(ops, DOMAIN ops, x) = CountIn(OpsOf(Accepted), x)
    /\ \A p \in Producers : \A b \in Buckets :
         IsSubseq(OpsOf(SelectSeq(Accepted, LAMBDA e : e.who = p /\ e.op.Bucket = b)),
                  IF b \in DOMAIN ops THEN ops[b] ELSE << >>)

\* both producers are done, one bucket holds an operation of each of them,
\* and an Add was rejected
C12_Witness ==
  /\ AllAdded
  /\ \E b \in DOMAIN ops : \E i, j \in 1..Len(Accepted) :
       /\ Accepted[i].who = "p1" /\ Accepted[i].op.Bucket = b
       /\ Accepted[j].who = "p2" /\ Accepted[j].op.Bucket = b
  /\ \E i \in 1..Len(log) : log[i].err = ErrMaxSequential

\* C18: at any point of any run of Add calls the sequence of each bucket is
\* the accepted operations of that bucket in the order they were accepted, a
\* bucket is tracked only once an operation of it was accepted, and a step
\* changes at most the sequence of the bucket of the Add it completes.
C18_PerPartitionOrder ==
  [][/\ \A b \in Buckets :
          (IF b \in DOMAIN ops' THEN ops'[b] ELSE << >>) =
            SelectSeq(OpsOf(Accepted'), LAMBDA x : x.Bucket = b)
     /\ \A b \in DOMAIN ops' :
          /\ ops'[b] # << >>
          /\ (b \notin DOMAIN ops \/ ops'[b] # ops[b]) =>
               /\ Len(log') = Len(log) + 1
               /\ log'[Len(log')].err = NoErr
               /\ log'[Len(log')].op.Bucket = b
     /\ DOMAIN ops \subseteq DOMAIN ops']_vars

\* two buckets are tracked, one holds two operations, an Add was rejected
C18_Witness ==
  /\ Cardinality(DOMAIN ops) = 2
  /\ \E b \in DOMAIN ops : Len(ops[b]) >= 2 /\ ops[b][1] # ops[b][2]
  /\ \E i \in 1..Len(log) : log[i].err = ErrMaxSequential

----------------------------------------------------------------------------
(* BoltFactory (src/unnamed/part_001:1-133).                                *)
(* Callers are goroutines that call the factory's methods; a call that     *)
(* takes the lock and returns without calling back into the factory is one *)
(* step. CloseAll calls Close while it holds the lock, so it is several:    *)
(* its Lock, each call of Close, its return.                               *)

\* how many databases bolt.Open opens in a run
MaxOpens == 2

\* the names callers register databases under
Names == {"n1", "n2"}

ErrNotFound(name) == [msg |-> "database not found", at |-> name]
ErrCouldNotOpen(name) == [msg |-> "could not open database", at |-> name]
ErrClose == [msg |-> "close failed", at |-> "-"]
ErrNilDeref == [msg |-> "panic: nil pointer dereference", at |-> "-"]

\* NewBoltDatabase: the database bolt.Open opened, nil when it failed
NewBoltDatabase(ok) == IF ok THEN nDbs + 1 ELSE NilDb

\* what bolt.Open leaves behind: a successful open is one more open database
Opened(ok) ==
  /\ ok => nDbs < MaxOpens
  /\ nDbs' = IF ok THEN nDbs + 1 ELSE nDbs
  /\ openDbs' = IF ok THEN openDbs \cup {nDbs + 1} ELSE openDbs

\* sync.RWMutex: Lock and RLock return only when no writer holds the mutex
\* (a call that reads is one step, so no reader is ever seen holding it)
FTryLock(l) == l = "free"

\* NewBoltFactory's test of what NewBoltDatabase returned: err != nil, where
\* err is the database
FactoryRejects(db) == db # NilDb

\* a factory has been constructed and no CloseAll is under way in the caller
FactoryIdle == factory /\ fpc = "idle"

\* the batch is not touched by factory calls
InitFactory ==
  /\ NewBatch
  /\ store = EmptyMap
  /\ pre = store
  /\ NoProducers
  /\ NoFactory

NewBoltFactory(name, ok) ==
  /\ ~factory
  /\ fpc = "idle"
  /\ Opened(ok)
  /\ LET db == NewBoltDatabase(ok) IN
       IF FactoryRejects(db)
         THEN /\ fret' = [NoCall EXCEPT !.call = "NewBoltFactory", !.name = name,
                            !.err = ErrCouldNotOpen(name), !.db = db, !.opened = ok]
              /\ UNCHANGED <<factory, databases>>
         ELSE /\ fret' = [NoCall EXCEPT !.call = "NewBoltFactory", !.name = name,
                            !.db = db, !.opened = ok]
              /\ factory' = TRUE
              /\ databases' = MapPut(EmptyMap, name, db)
  /\ UNCHANGED <<flck, fpc, handles, batchVars, dbVars, prodVars>>

\* GetDatabases
FactoryNames(dbs) == DOMAIN dbs

GetDatabases ==
  /\ FactoryIdle
  /\ FTryLock(flck)
  /\ fret' = [NoCall EXCEPT !.call = "GetDatabases", !.names = FactoryNames(databases)]
  /\ UNCHANGED <<factory, databases, flck, fpc, openDbs, nDbs, handles, batchVars, dbVars, prodVars>>

Open(name, ok) ==
  /\ FactoryIdle
  /\ FTryLock(flck)
  /\ Opened(ok)
  /\ databases' = MapPut(databases, name, NewBoltDatabase(ok))
  /\ fret' = [NoCall EXCEPT !.call = "Open", !.name = name,
                !.db = NewBoltDatabase(ok), !.opened = ok]
  /\ handles' = handles \cup {NewBoltDatabase(ok)}
  /\ UNCHANGED <<factory, flck, fpc, batchVars, dbVars, prodVars>>

\* a Close that leaves the name in the map
RegistryDelete_Keeps(dbs, name) == dbs

\* delete(f.databases, name)
RegistryDelete(dbs, name) == MapDelete(dbs, name)

\* BoltDatabase.Close: return b.db.Close(). Through a nil *BoltDatabase the
\* read of b.db panics; closing a database that is closed already returns
\* nil; closing an open one can fail, and the database is not open any more
\* whether it fails or not (bolt marks it closed before the step that can
\* fail).
DatabaseClose(db, fails) ==
  IF db = NilDb THEN [err |-> ErrNilDeref, openDbs |-> openDbs]
  ELSE IF db \notin openDbs THEN [err |-> NoErr, openDbs |-> openDbs]
  ELSE IF fails THEN [err |-> ErrClose, openDbs |-> openDbs \ {db}]
  ELSE [err |-> NoErr, openDbs |-> openDbs \ {db}]

\* the body of Close under its lock: the error it returns, the map and the
\* open databases it leaves
CloseBody(name, fails) ==
  IF name \notin DOMAIN databases
    THEN [err |-> ErrNotFound(name), databases |-> databases, openDbs |-> openDbs]
  ELSE LET c == DatabaseClose(databases[name], fails) IN
    IF c.err # NoErr
      THEN [err |-> c.err, databases |-> databases, openDbs |-> c.openDbs]
      ELSE [err |-> NoErr,
            databases |-> RegistryDelete(databases, name),
            openDbs |-> c.openDbs]

\* Close called on a database Open or Get returned, by the caller that holds it
\* (defer db.Close()): no factory lock is taken and the map is not touched
DbClose(db, fails) ==
  /\ db \in handles
  /\ openDbs' = DatabaseClose(db, fails).openDbs
  /\ fret' = IF fpc = "idle"
              THEN [NoCall EXCEPT !.call = "BoltDatabase.Close", !.db = db,
                      !.err = DatabaseClose(db, fails).err]
              ELSE fret
  /\ UNCHANGED <<factory, databases, flck, fpc, nDbs, handles, batchVars, dbVars, prodVars>>

\* Close, called by a user of the factory or from CloseAll's loop. Its Lock
\* is the first thing it does; its deferred Unlock releases the mutex. Back
\* in CloseAll, an error ends the loop and CloseAll returns it.
Close(name, fails) ==
  /\ factory
  /\ fpc = "idle" \/ (fpc = "CloseAll.Close" /\ fret.name = name)
  /\ FTryLock(flck)
  /\ LET r == CloseBody(name, fails) IN
       /\ databases' = r.databases
       /\ openDbs' = r.openDbs
       /\ IF fpc = "idle"
            THEN /\ fret' = [NoCall EXCEPT !.call = "Close", !.name = name, !.err = r.err]
                 /\ fpc' = fpc
            ELSE IF r.err = NoErr
              THEN /\ fret' = fret
                   /\ fpc' = "CloseAll"
              ELSE /\ fret' = [fret EXCEPT !.err = r.err]
                   /\ fpc' = "idle"
  /\ flck' = "free"
  /\ UNCHANGED <<factory, nDbs, handles, batchVars, dbVars, prodVars>>

\* the databases a map registers
RegisteredDbs(dbs) == {dbs[n] : n \in DOMAIN dbs}

\* CloseAll: f.lck.Lock()
CloseAllStart ==
  /\ FactoryIdle
  /\ FTryLock(flck)
  /\ flck' = "w"
  /\ fpc' = "CloseAll"
  /\ fret' = [NoCall EXCEPT !.call = "CloseAll", !.err = Pending,
                !.dbs = RegisteredDbs(databases)]
  /\ UNCHANGED <<factory, databases, openDbs, nDbs, handles, batchVars, dbVars, prodVars>>

\* CloseAll's loop: the next name of the map, in any order, and the call of
\* f.Close(name), which starts with f.lck.Lock()
CloseAllCall(name) ==
  /\ fpc = "CloseAll"
  /\ name \in DOMAIN databases
  /\ fpc' = "CloseAll.Close"
  /\ fret' = [fret EXCEPT !.name = name]
  /\ UNCHANGED <<factory, databases, flck, openDbs, nDbs, handles, batchVars, dbVars, prodVars>>

\* CloseAll: the loop is over, return nil, the deferred Unlock
CloseAllReturn ==
  /\ fpc = "CloseAll"
  /\ DOMAIN databases = {}
  /\ fpc' = "idle"
  /\ flck' = "free"
  /\ fret' = [fret EXCEPT !.err = NoErr]
  /\ UNCHANGED <<factory, databases, openDbs, nDbs, handles, batchVars, dbVars, prodVars>>

\* Get: the database and the error it returns
FactoryGet(dbs, name) ==
  IF name \in DOMAIN dbs
    THEN [db |-> dbs[name], err |-> NoErr]
    ELSE [db |-> NilDb, err |-> ErrNotFound(name)]

Get(name) ==
  /\ FactoryIdle
  /\ FTryLock(flck)
  /\ fret' = [NoCall EXCEPT !.call = "Get", !.name = name,
                !.db = FactoryGet(databases, name).db,
                !.err = FactoryGet(databases, name).err]
  /\ handles' = IF FactoryGet(databases, name).err = NoErr
                 THEN handles \cup {FactoryGet(databases, name).db}
                 ELSE handles
  /\ UNCHANGED <<factory, databases, flck, fpc, openDbs, nDbs, batchVars, dbVars, prodVars>>

NextFactory ==
  \/ \E name \in Names, ok \in BOOLEAN : NewBoltFactory(name, ok)
  \/ GetDatabases
  \/ \E name \in Names, ok \in BOOLEAN : Open(name, ok)
  \/ \E name \in Names, fails \in BOOLEAN : Close(name, fails)
  \/ \E db \in 0..MaxOpens, fails \in BOOLEAN : DbClose(db, fails)
  \/ CloseAllStart
  \/ \E name \in Names : CloseAllCall(name)
  \/ CloseAllReturn
  \/ \E name \in Names : Get(name)

SpecFactory == InitFactory /\ [][NextFactory]_vars

\* a goroutine that can take a step of a factory call eventually takes one
FairSpecFactory == SpecFactory /\ WF_vars(NextFactory)

\* C13: a CloseAll that was called eventually returns, whatever the number
\* of databases registered; and when it returns without error every
\* database that was registered when it was called is closed and the map is
\* empty.
C13_CloseAllReturns ==
  /\ (fpc # "idle") ~> (fpc = "idle" /\ fret.call = "CloseAll" /\ fret.err # Pending)
  /\ [](((fret.call = "CloseAll" /\ fret.err = NoErr) =>
           (DOMAIN databases = {} /\ fret.dbs \cap openDbs = {})))

\* C14: NewBoltFactory returns an error exactly when bolt.Open failed; when
\* the open succeeded it returns a factory, without error, whose map holds
\* the opened database under the name given.
C14_FactoryOrError ==
  fret.call = "NewBoltFactory" =>
    /\ fret.err # NoErr <=> ~fret.opened
    /\ fret.opened =>
         /\ factory
         /\ fret.name \in DOMAIN databases
         /\ databases[fret.name] = fret.db
         /\ fret.db \in openDbs

\* C15: Close(name) returns the not-found error when the name is not
\* registered; whenever it does not return nil (name not registered, close
\* failed) the map is as before, and the open databases are as before but
\* for the one whose close failed, which is not open any more; when it
\* returns nil the name was registered, only that name has left the map,
\* its database is closed, Get(name) answers not found and GetDatabases
\* does not list it.
C15_CloseRemovesOnSuccess ==
  [][fret'.call = "Close" =>
       /\ fret'.name \notin DOMAIN databases => fret'.err = ErrNotFound(fret'.name)
       /\ fret'.err # NoErr =>
            /\ databases' = databases
            /\ openDbs' = IF fret'.err = ErrClose
                            THEN openDbs \ {databases[fret'.name]} ELSE openDbs
       /\ fret'.err = NoErr =>
            /\ fret'.name \in DOMAIN databases
            /\ DOMAIN databases' = DOMAIN databases \ {fret'.name}
            /\ \A n \in DOMAIN databases' : databases'[n] = databases[n]
            /\ databases[fret'.name] \notin openDbs'
            /\ FactoryGet(databases', fret'.name) =
                 [db |-> NilDb, err |-> ErrNotFound(fret'.name)]
            /\ fret'.name \notin FactoryNames(databases')]_vars

\* a Close succeeded and left the other registered database in the map
C15_Witness ==
  /\ fret.call = "Close"
  /\ fret.err = NoErr
  /\ DOMAIN databases # {}
  /\ fret.name \notin DOMAIN databases
  /\ Cardinality(openDbs) < nDbs

----------------------------------------------------------------------------
(* BoltDatabase, the store adapter (src/unnamed/part_002:50-139).           *)
(* Each method is one bolt transaction: Set and Delete run in db.Batch,    *)
(* which commits when the function returns nil and rolls back otherwise;   *)
(* Get and List run in db.View, which cannot write. ret holds the call,    *)
(* its arguments and what it returned; pre is the store before the call.   *)

ErrBucketNotFound == [msg |-> "bucket not found", at |-> "-"]

\* the arguments of an adapter call, as a record of the shape Add takes
DbArg(bucket, key, value, kind) ==
  [Bucket |-> bucket, Key |-> key, Value |-> value, Op |-> kind]

\* what an adapter call returned: error, value (Get), pairs (List)
DbRet(call, arg, err, val, list) ==
  [call |-> call, arg |-> arg, err |-> err, val |-> val, list |-> list]

\* a database that holds nothing or one bucket, and no call made yet
InitStore ==
  /\ NewBatch
  /\ store \in InitStores
  /\ pre = store
  /\ NoProducers
  /\ NoFactory

\* the function Set hands to db.Batch: the bucket is created when absent,
\* then the pair is put; the error of either is returned
SetTx(st, bucket, key, value) ==
  LET c == CreateBucketIfNotExists(st, bucket) IN
    IF c.err # NoErr THEN [err |-> c.err, tx |-> c.tx]
    ELSE LET p == BucketPut(c.tx[bucket], key, value)
         IN [err |-> p.err, tx |-> MapPut(c.tx, bucket, p.data)]

\* db.Batch and db.View on the adapter's database: the function runs unless
\* the database has been closed
OnOpenDb(r) == IF boltdb \in closed THEN [err |-> ErrDatabaseNotOpen, tx |-> store] ELSE r

DbSet(bucket, key, value) ==
  /\ pre' = store
  /\ store' = BatchCommit(store, OnOpenDb(SetTx(store, bucket, key, value)))
  /\ ret' = DbRet("Set", DbArg(bucket, key, value, OpSet),
                  OnOpenDb(SetTx(store, bucket, key, value)).err, NIL, EmptyMap)
  /\ UNCHANGED <<ops, lck, mode, remaining, pc, sem, gerr, res, finished, rerun>>
  /\ UNCHANGED <<dbVars, prodVars, facVars>>

\* a Delete that creates the bucket it does not find
DeleteTx_Creates(st, bucket, key) ==
  LET c == CreateBucketIfNotExists(st, bucket) IN
    IF c.err # NoErr THEN [err |-> c.err, tx |-> c.tx]
    ELSE [err |-> NoErr, tx |-> [c.tx EXCEPT ![bucket] = BucketDelete(@, key)]]

\* the function Delete hands to db.Batch: tx.Bucket is nil for a bucket the
\* store does not hold
DeleteTx(st, bucket, key) ==
  IF bucket \notin DOMAIN st
    THEN [err |-> ErrBucketNotFound, tx |-> st]
    ELSE [err |-> NoErr, tx |-> [st EXCEPT ![bucket] = BucketDelete(@, key)]]

DbDelete(bucket, key) ==
  /\ pre' = store
  /\ store' = BatchCommit(store, OnOpenDb(DeleteTx(store, bucket, key)))
  /\ ret' = DbRet("Delete", DbArg(bucket, key, NIL, OpDelete),
                  OnOpenDb(DeleteTx(store, bucket, key)).err, NIL, EmptyMap)
  /\ UNCHANGED <<ops, lck, mode, remaining, pc, sem, gerr, res, finished, rerun>>
  /\ UNCHANGED <<dbVars, prodVars, facVars>>

\* bucket.Get under Get's nil test of the bucket: nil for a missing bucket or
\* key. The slice returned is the value as the store holds it at the return.
GetValue(st, bucket, key) ==
  IF bucket \in DOMAIN st /\ key \in DOMAIN st[bucket] THEN st[bucket][key] ELSE NIL

DbGet(bucket, key) ==
  /\ pre' = store
  /\ ret' = IF boltdb \in closed
              THEN DbRet("Get", DbArg(bucket, key, NIL, "get"), ErrDatabaseNotOpen,
                         NIL, EmptyMap)
              ELSE DbRet("Get", DbArg(bucket, key, NIL, "get"), NoErr,
                         GetValue(store, bucket, key), EmptyMap)
  /\ UNCHANGED <<ops, store, lck, mode, remaining, pc, sem, gerr, res, finished, rerun>>
  /\ UNCHANGED <<dbVars, prodVars, facVars>>

\* List: the pairs ForEach visits; none for a missing bucket
ListPairs(st, bucket) == IF bucket \in DOMAIN st THEN st[bucket] ELSE EmptyMap

DbList(bucket) ==
  /\ pre' = store
  /\ ret' = IF boltdb \in closed
              THEN DbRet("List", DbArg(bucket, "-", NIL, "list"), ErrDatabaseNotOpen,
                         NIL, EmptyMap)
              ELSE DbRet("List", DbArg(bucket, "-", NIL, "list"), NoErr, NIL,
                         ListPairs(store, bucket))
  /\ UNCHANGED <<ops, store, lck, mode, remaining, pc, sem, gerr, res, finished, rerun>>
  /\ UNCHANGED <<dbVars, prodVars, facVars>>

\* the pairs handed to Set: those of the batches, and a key and a value
\* that are too long
SetInputs ==
  (Keys \X Values) \cup {<<BigKey, "v1">>, <<"k1", BigValue>>, <<BigKey, BigValue>>}

NextStore ==
  \/ \E bucket \in Buckets, kv \in SetInputs : DbSet(bucket, kv[1], kv[2])
  \/ \E bucket \in Buckets, key \in Keys : DbDelete(bucket, key)
  \/ \E bucket \in Buckets, key \in Keys : DbGet(bucket, key)
  \/ \E bucket \in Buckets : DbList(bucket)
  \/ BoltDatabaseClose(boltdb)

SpecStore == InitStore /\ [][NextStore]_vars

\* C16: Set on a bucket the store does not hold creates it and stores the
\* pair; Delete on such a bucket returns an error, creates nothing and
\* leaves the store as it was; Get and List never change the store and
\* return, without error, no value for a missing bucket or key and no pair
\* for a missing bucket.
C16_AdapterMissingPartition ==
  /\ (ret.call = "Set" /\ ret.arg.Bucket \notin DOMAIN pre) =>
       /\ ret.err = NoErr
       /\ DOMAIN store = DOMAIN pre \cup {ret.arg.Bucket}
       /\ DOMAIN store[ret.arg.Bucket] = {ret.arg.Key}
       /\ store[ret.arg.Bucket][ret.arg.Key] = ret.arg.Value
       /\ \A b \in DOMAIN pre : store[b] = pre[b]
  /\ (ret.call = "Delete" /\ ret.arg.Bucket \notin DOMAIN pre) =>
       /\ ret.err # NoErr
       /\ store = pre
  /\ ret.call = "Get" =>
       /\ store = pre
       /\ ret.err = NoErr
       /\ (ret.arg.Bucket \notin DOMAIN pre \/ ret.arg.Key \notin DOMAIN pre[ret.arg.Bucket])
            => ret.val = NIL
  /\ ret.call = "List" =>
       /\ store = pre
       /\ ret.err = NoErr
       /\ ret.arg.Bucket \notin DOMAIN pre => DOMAIN ret.list = {}

\* C16, amended: on a database that is open, Set of a pair the store accepts
\* (a key that is neither empty nor too long, a value that is not too long)
\* on a bucket the store does not hold and whose name is not empty creates
\* the bucket and stores the pair, and a Set with an empty bucket name or a
\* pair the store refuses returns an error and leaves the store as it was
\* (the bucket is not created); Delete on a
\* bucket the store does not hold returns an error and creates nothing; Get
\* and List never change the store and return, without error, no value for
\* a missing bucket or key and no pair for a missing bucket. On a database
\* that has been closed every call returns "database not open", no value
\* and no pair, and the store is as it was.
C16_AdapterOnOpenStore ==
  /\ ret.err = ErrDatabaseNotOpen =>
       /\ boltdb \in closed
       /\ store = pre
       /\ ret.val = NIL
       /\ DOMAIN ret.list = {}
  /\ (ret.call \in {"Set", "Delete", "Get", "List"} /\ ret.err # ErrDatabaseNotOpen) =>
       /\ (ret.call = "Set" /\ ret.arg.Bucket \notin DOMAIN pre) =>
            IF ret.arg.Bucket # "" /\ ret.arg.Key \notin {"", BigKey}
                 /\ ret.arg.Value # BigValue
              THEN /\ ret.err = NoErr
                   /\ DOMAIN store = DOMAIN pre \cup {ret.arg.Bucket}
                   /\ DOMAIN store[ret.arg.Bucket] = {ret.arg.Key}
                   /\ store[ret.arg.Bucket][ret.arg.Key] = ret.arg.Value
                   /\ \A b \in DOMAIN pre : store[b] = pre[b]
              ELSE /\ ret.err = IF ret.arg.Bucket = "" THEN ErrBucketNameRequired
                               ELSE IF ret.arg.Key = "" THEN ErrKeyRequired
                               ELSE IF ret.arg.Key = BigKey THEN ErrKeyTooLarge
                               ELSE ErrValueTooLarge
                   /\ store = pre
       /\ (ret.call = "Delete" /\ ret.arg.Bucket \notin DOMAIN pre) =>
            /\ ret.err = ErrBucketNotFound
            /\ store = pre
       /\ ret.call = "Get" =>
            /\ store = pre
            /\ ret.err = NoErr
            /\ (ret.arg.Bucket \notin DOMAIN pre \/ ret.arg.Key \notin DOMAIN pre[ret.arg.Bucket])
                 => ret.val = NIL
       /\ ret.call = "List" =>
            /\ store = pre
            /\ ret.err = NoErr
            /\ ret.arg.Bucket \notin DOMAIN pre => DOMAIN ret.list = {}

\* a Delete on a missing bucket returned its error in a store where an
\* earlier Set had created another bucket
C16_Witness ==
  /\ ret.call = "Delete"
  /\ ret.err = ErrBucketNotFound
  /\ ret.arg.Bucket \notin DOMAIN store
  /\ "b2" \in DOMAIN store

----------------------------------------------------------------------------
(* Operations of unknown kind.                                             *)

\* a sequence without its i-th element
RemoveAt(seq, i) == SubSeq(seq, 1, i - 1) \o SubSeq(seq, i + 1, Len(seq))

\* what the bucket would be had its transaction run without the i-th
\* operation
WithoutOp(b, i) == BucketState(dbBatch(pre, b, RemoveAt(ops[b], i)).store, b)

\* C24: an Execute variant does not return without error on a batch that
\* holds an operation of a kind other than set and delete unless that
\* operation changed what the store holds: the bucket is not what it would
\* be without the operation.
C24_UnknownKindNotDropped ==
  (ExecuteVariantReturned /\ ret.err = NoErr) =>
    \A b \in DOMAIN ops : \A i \in 1..Len(ops[b]) :
      ~KnownKind(ops[b][i]) => BucketState(store, b) # WithoutOp(b, i)

----------------------------------------------------------------------------
(* Termination of ExecuteConcurrent.                                       *)

\* C21: an ExecuteConcurrent that was called returns; a goroutine waiting
\* for a slot gets one; when the call has returned every slot is free,
\* whether the transactions succeeded or failed; and on an empty batch, whose
\* semaphore has capacity 0, it returns no error and leaves the store as it
\* was.
C21_ExecuteConcurrentTerminates ==
  /\ (mode = "conc") ~> Returned("ExecuteConcurrent")
  /\ \A b \in Buckets : (mode = "conc" /\ pc[b] = "wait") ~> (pc[b] = "slot")
  /\ [](Returned("ExecuteConcurrent") =>
          /\ sem = 0
          /\ SlotHolders = {}
          /\ DOMAIN ops = {} => (SemaphoreCap(ops) = 0 /\ ret.err = NoErr /\ store = pre))

\* a call on more buckets than slots has returned, one of its transactions
\* having failed and another committed
C21_Witness ==
  /\ Returned("ExecuteConcurrent")
  /\ Cardinality(DOMAIN ops) > MAX_CONCURRENT_OPERATIONS
  /\ FailedBuckets # {}
  /\ CommittedBuckets # {}
  /\ sem = 0

----------------------------------------------------------------------------
(* What the factory's map holds.                                           *)

\* C23: in every state of a factory every registered name maps to a
\* database that is not nil and is open; Get never returns the nil database
\* with a nil error, and Close never goes through the nil database.
C23_RegistryHoldsOpenDbs ==
  /\ \A n \in DOMAIN databases :
       /\ databases[n] # NilDb
       /\ databases[n] \in openDbs
  /\ (fret.call = "Get" /\ fret.err = NoErr) => fret.db # NilDb
  /\ fret.err # ErrNilDeref

----------------------------------------------------------------------------
(* SetDB (src/batching.go:77-79).                                          *)
(* A batch made for one database can be bound to another. store is the     *)
(* content of the database b.boltdb points to and other that of the second *)
(* database, so rebinding exchanges the two. SetDB takes no lock: it is a   *)
(* step another goroutine can take at any point of an execution, and each  *)
(* transaction reads b.boltdb when it starts (lines 101, 149); the         *)
(* unsynchronised read sees the pointer written before or after it, which   *)
(* is the order of the two steps.                                          *)

\* the databases a caller can bind the batch to
Databases == {"db1", "db2"}

\* b.boltdb = db
SetDB(db) ==
  /\ boltdb' = db
  /\ store' = IF db = boltdb THEN store ELSE other
  /\ other' = IF db = boltdb THEN other ELSE store
  /\ UNCHANGED <<ops, lck, mode, remaining, pc, sem, gerr, res, ret, pre, finished, rerun>>
  /\ UNCHANGED <<startDb, target, closed, prodVars, facVars>>

\* batches of sets with and without a value, both Execute variants, and a
\* goroutine that rebinds the batch
NextSetDB ==
  \/ \E op \in TerminationOps : Add(op)
  \/ ExecuteStart
  \/ \E bucket \in Buckets : ExecuteCallBatch(bucket)
  \/ \E bucket \in Buckets : ExecuteBucket(bucket)
  \/ ExecuteReturn
  \/ ExecuteConcurrentStart
  \/ \E bucket \in Buckets : Acquire(bucket)
  \/ \E bucket \in Buckets : CallBatch(bucket)
  \/ \E bucket \in Buckets : RunBatch(bucket)
  \/ \E bucket \in Buckets : Release(bucket)
  \/ \E bucket \in Buckets : TaskDone(bucket)
  \/ ExecuteConcurrentReturn
  \/ \E db \in Databases : BoltDatabaseClose(db)
  \/ \E db \in Databases : SetDB(db)

SpecSetDB == Init /\ [][NextSetDB]_vars

\* C22: every transaction an Execute or ExecuteConcurrent call commits goes
\* to the database that was bound to the batch when the call started, also
\* when SetDB runs during the call: a bucket's transaction that commits
\* was started on that database.
C22_OneStorePerExecution ==
  [][\A b \in Buckets :
       (res[b] = Pending /\ res'[b] = NoErr) => target[b] = startDb]_vars

====
